---------------------------- MODULE Spec2Model ----------------------------
(***************************************************************************)
(* A model of mysql-proxy (src/main.rs): an HTTP endpoint that takes a     *)
(* JSON-encoded SQL request, runs it on a pooled MySQL connection and      *)
(* answers with the rows or with the last insert id.                       *)
(*                                                                         *)
(* Two specifications:                                                     *)
(*   Spec       the request handling: warp filters, query, _query, error,  *)
(*              the shared connection pool, concurrent requests;           *)
(*   CodecSpec  the value codec: convert_params and QueryRow::serialize    *)
(*              applied to inputs drawn from bounded sets.                 *)
(*                                                                         *)
(* Numbers.  TLC's integers are 32 bits wide, a u64 or an f64 is not, so a *)
(* number is a sign and the set of the exponents of its binary expansion:  *)
(* [neg |-> FALSE, bits |-> {0, 53}] is 2^53 + 1, [neg |-> TRUE,           *)
(* bits |-> {-1, 1}] is -2.5.  Two such numbers are equal in value iff     *)
(* they are equal.                                                         *)
(*                                                                         *)
(* Strings are sequences of Unicode code points, byte strings sequences of *)
(* bytes (0..255).                                                         *)
(***************************************************************************)
EXTENDS Integers, Sequences, FiniteSets, TLC

VARIABLES
    \* ---- request handling (Spec) ----
    pc,         \* per request: "idle", "acquire", "exec", "done", "rejected"
    body,       \* the parsed body: a Query, or BadBody
    ret,        \* the raw value of the `return` query parameter, or Absent
    get_id,     \* the mode flag handed to _query
    conn,       \* whether the request holds a pooled connection
    free,       \* connections the pool can still hand out
    acquires,   \* calls of POOL.get_conn made for the request
    execs,      \* statements sent to the store for the request
    sent,       \* the statement as sent: its form and its bound parameters
    logged,     \* the lines the request's handling wrote to the log
    result,     \* what _query returned: Ok(QueryResult) or Err(String)
    response,   \* the HTTP response
    outcome,    \* how the awaited pool and store futures resolved
    afterFail,  \* the connection was acquired after a failed request ended
    \* ---- value codec (CodecSpec) ----
    cphase,     \* "params", "encoded", "row", "serialized"
    cparams,    \* the JSON parameters of a Prepared query
    cbound,     \* convert_params' result
    crow,       \* a row as the store returned it
    cmap        \* the entries QueryRow::serialize emitted, in order

reqVars   == <<pc, body, ret, get_id, conn, free, acquires, execs, sent,
               logged, result, response, outcome, afterFail>>
codecVars == <<cphase, cparams, cbound, crow, cmap>>
vars      == <<reqVars, codecVars>>

-----------------------------------------------------------------------------
(* Option<T> *)

None    == [some |-> FALSE]
Some(x) == [some |-> TRUE, val |-> x]

-----------------------------------------------------------------------------
(* Numbers as binary expansions *)

\* Significand width of an f64 (IEEE 754 binary64), the target of as_f64.
F64MantissaBits == 53

MaxOf(S) == CHOOSE x \in S : \A y \in S : y <= x

\* S + 2^b, carrying.
RECURSIVE AddBit(_, _)
AddBit(S, b) == IF b \in S THEN AddBit(S \ {b}, b + 1) ELSE S \cup {b}

\* `n as f64` for an integer magnitude: round to nearest, ties to even.
RoundToF64(S) ==
    IF S = {} THEN {}
    ELSE LET h      == MaxOf(S)
             lo     == h - (F64MantissaBits - 1)
             keep   == {e \in S : e >= lo}
             rest   == S \ keep
             half   == (lo - 1) \in rest
             sticky == rest \ {lo - 1} # {}
             up     == half /\ (sticky \/ lo \in keep)
         IN  IF up THEN AddBit(keep, lo) ELSE keep

Num(neg, bits) == [neg |-> neg, bits |-> bits]

-----------------------------------------------------------------------------
(* Strings: UTF-8 and decimal formatting *)

REPLACEMENT == 65533    \* U+FFFD

IsCont(b) == b >= 128 /\ b <= 191

\* bs[i], or 0 past the end (0 is no continuation byte).
ByteAt(bs, i) == IF i <= Len(bs) THEN bs[i] ELSE 0

\* One chunk of String::from_utf8_lossy at position i: the code point it
\* yields and the bytes it consumes.  A maximal invalid prefix yields one
\* U+FFFD.
Utf8Chunk(bs, i) ==
    LET b  == bs[i]
        b2 == ByteAt(bs, i + 1)
        b3 == ByteAt(bs, i + 2)
        b4 == ByteAt(bs, i + 3)
        bad(n) == [cp |-> REPLACEMENT, n |-> n]
    IN  IF b < 128 THEN [cp |-> b, n |-> 1]
        ELSE IF b >= 194 /\ b <= 223 THEN
            IF IsCont(b2) THEN [cp |-> (b - 192) * 64 + (b2 - 128), n |-> 2]
            ELSE bad(1)
        ELSE IF b >= 224 /\ b <= 239 THEN
            LET ok2 == \/ b = 224 /\ b2 >= 160 /\ b2 <= 191
                       \/ b >= 225 /\ b <= 236 /\ IsCont(b2)
                       \/ b = 237 /\ b2 >= 128 /\ b2 <= 159
                       \/ b >= 238 /\ IsCont(b2)
            IN  IF ~ok2 THEN bad(1)
                ELSE IF ~IsCont(b3) THEN bad(2)
                ELSE [cp |-> (b - 224) * 4096 + (b2 - 128) * 64 + (b3 - 128),
                      n |-> 3]
        ELSE IF b >= 240 /\ b <= 244 THEN
            LET ok2 == \/ b = 240 /\ b2 >= 144 /\ b2 <= 191
                       \/ b >= 241 /\ b <= 243 /\ IsCont(b2)
                       \/ b = 244 /\ b2 >= 128 /\ b2 <= 143
            IN  IF ~ok2 THEN bad(1)
                ELSE IF ~IsCont(b3) THEN bad(2)
                ELSE IF ~IsCont(b4) THEN bad(3)
                ELSE [cp |-> (b - 240) * 262144 + (b2 - 128) * 4096
                             + (b3 - 128) * 64 + (b4 - 128),
                      n |-> 4]
        ELSE bad(1)

RECURSIVE LossyFrom(_, _)
LossyFrom(bs, i) ==
    IF i > Len(bs) THEN <<>>
    ELSE LET c == Utf8Chunk(bs, i) IN <<c.cp>> \o LossyFrom(bs, i + c.n)

\* String::from_utf8_lossy
from_utf8_lossy(bs) == LossyFrom(bs, 1)

\* The UTF-8 bytes of one code point (a Rust String holds them already).
Utf8Bytes(cp) ==
    IF cp < 128 THEN <<cp>>
    ELSE IF cp < 2048 THEN <<192 + (cp \div 64), 128 + (cp % 64)>>
    ELSE IF cp < 65536 THEN
        <<224 + (cp \div 4096), 128 + ((cp \div 64) % 64), 128 + (cp % 64)>>
    ELSE <<240 + (cp \div 262144), 128 + ((cp \div 4096) % 64),
           128 + ((cp \div 64) % 64), 128 + (cp % 64)>>

\* String::into_bytes
RECURSIVE into_bytes(_)
into_bytes(s) ==
    IF s = <<>> THEN <<>> ELSE Utf8Bytes(Head(s)) \o into_bytes(Tail(s))

\* Display of an unsigned integer: decimal, no padding.
RECURSIVE Decimal(_)
Decimal(n) ==
    IF n < 10 THEN <<48 + n>> ELSE Decimal(n \div 10) \o <<48 + (n % 10)>>

\* Decimal, zero-padded to w digits.
Padded(n, w) ==
    LET d == Decimal(n) IN
    IF Len(d) >= w THEN d ELSE [k \in 1..(w - Len(d)) |-> 48] \o d

\* Mutant of FormatDate: the fields zero-padded, as "{:04}-{:02}-..." would.
FormatDate_Padded(y, m, d, h, i, s, u) ==
    Padded(y, 4) \o <<45>> \o Padded(m, 2) \o <<45>> \o Padded(d, 2)
    \o <<32>> \o Padded(h, 2) \o <<58>> \o Padded(i, 2) \o <<58>>
    \o Padded(s, 2) \o <<46>> \o Padded(u, 6)

\* format!("{}-{}-{} {}:{}:{}.{}", y, m, d, h, i, s, u)
FormatDate(y, m, d, h, i, s, u) ==
    Decimal(y) \o <<45>> \o Decimal(m) \o <<45>> \o Decimal(d) \o <<32>>
    \o Decimal(h) \o <<58>> \o Decimal(i) \o <<58>> \o Decimal(s) \o <<46>>
    \o Decimal(u)

-----------------------------------------------------------------------------
(* serde_json::Value, the JSON a caller sends and the JSON sent back *)

JNull      == [t |-> "Null"]
JBool(b)   == [t |-> "Bool", b |-> b]
JString(s) == [t |-> "String", s |-> s]
\* serde_json::Number: n is "PosInt" (u64), "NegInt" (i64 < 0) or "Float"
\* (a finite f64); on the way out it is the primitive that was serialized:
\* "i64", "u64", "f32" or "f64".
JNumber(n, neg, bits) == [t |-> "Number", n |-> n, neg |-> neg, bits |-> bits]
JArray     == [t |-> "Array"]
JObject    == [t |-> "Object"]

(* mysql_async::Value *)

VNULL        == [kind |-> "NULL"]
VBytes(bs)   == [kind |-> "Bytes", bytes |-> bs]
VInt(neg, bits)    == [kind |-> "Int", neg |-> neg, bits |-> bits]
VUInt(bits)        == [kind |-> "UInt", neg |-> FALSE, bits |-> bits]
VFloat(neg, bits)  == [kind |-> "Float", neg |-> neg, bits |-> bits]
VDouble(neg, bits) == [kind |-> "Double", neg |-> neg, bits |-> bits]
VDate(y, m, d, h, i, s, u) ==
    [kind |-> "Date", y |-> y, m |-> m, d |-> d, h |-> h, i |-> i, s |-> s,
     u |-> u]
VTime(neg, d, h, m, s, u) ==
    [kind |-> "Time", neg |-> neg, d |-> d, h |-> h, m |-> m, s |-> s,
     u |-> u]

-----------------------------------------------------------------------------
(* convert_params *)

\* serde_json::Number::as_f64: Some for every Number, an integer cast with
\* `as f64` (rounded to the nearest f64).
as_f64(p) ==
    IF p.n = "Float" THEN Some(Num(p.neg, p.bits))
    ELSE Some(Num(p.neg, RoundToF64(p.bits)))

\* serde_json::Number::as_u64: Some for a PosInt only.
as_u64(p) == IF p.n = "PosInt" THEN Some(p.bits) ELSE None

\* Mutant of ConvertNumber: as_u64 tried before as_f64.
ConvertNumber_UIntFirst(p) ==
    IF as_u64(p).some THEN VUInt(as_u64(p).val)
    ELSE IF as_f64(p).some
         THEN VDouble(as_f64(p).val.neg, as_f64(p).val.bits)
    ELSE VNULL

\* The Value::Number arm: as_f64 first, then as_u64, twice.
ConvertNumber(p) ==
    IF as_f64(p).some THEN VDouble(as_f64(p).val.neg, as_f64(p).val.bits)
    ELSE IF as_u64(p).some THEN VUInt(as_u64(p).val)
    ELSE IF as_u64(p).some THEN VUInt(as_u64(p).val)
    ELSE VNULL

\* One parameter.  mysql_async's From<bool> is Value::Int(b as i64),
\* From<String> is Value::Bytes(s.into_bytes()), From<f64> Value::Double.
ConvertParam(p) ==
    CASE p.t = "Bool"   -> VInt(FALSE, IF p.b THEN {0} ELSE {})
      [] p.t = "String" -> VBytes(into_bytes(p.s))
      [] p.t = "Number" -> ConvertNumber(p)
      [] OTHER          -> VNULL

\* Params::Positional(params.into_iter().map(..).collect())
convert_params(params) ==
    [form |-> "Positional",
     values |-> [i \in 1..Len(params) |-> ConvertParam(params[i])]]

-----------------------------------------------------------------------------
(* QueryRow::serialize *)

\* A row is its columns' names and, index for index, its values.
Row(columns, values) == [columns |-> columns, values |-> values]

\* Row::as_ref(index)
as_ref(row, index) ==
    IF index <= Len(row.values) THEN Some(row.values[index]) ELSE None

\* The match on the column's value: the JSON scalar handed to
\* serialize_entry.  An f32 is serialized as an f32, an i64 as an i64, ...
DecodeValue(o) ==
    IF ~o.some THEN JNull
    ELSE LET v == o.val IN
        CASE v.kind = "Bytes"  -> JString(from_utf8_lossy(v.bytes))
          [] v.kind = "Date"   ->
                JString(FormatDate(v.y, v.m, v.d, v.h, v.i, v.s, v.u))
          [] v.kind = "Double" -> JNumber("f64", v.neg, v.bits)
          [] v.kind = "Float"  -> JNumber("f32", v.neg, v.bits)
          [] v.kind = "Int"    -> JNumber("i64", v.neg, v.bits)
          [] v.kind = "UInt"   -> JNumber("u64", v.neg, v.bits)
          [] OTHER             -> JNull

\* Mutant of serialize: a column holding NULL gets no entry.
serialize_SkipNull(row) ==
    LET all == [index \in 1..Len(row.columns) |->
                   [key |-> row.columns[index],
                    value |-> DecodeValue(as_ref(row, index))]]
    IN  SelectSeq(all, LAMBDA en : en.value # JNull)

\* The loop over the columns: one serialize_entry per column, in order.
serialize(row) ==
    [index \in 1..Len(row.columns) |->
        [key |-> row.columns[index],
         value |-> DecodeValue(as_ref(row, index))]]

-----------------------------------------------------------------------------
(* The value codec applied to bounded inputs: CodecSpec *)

MaxParams == 2      \* parameters of a Prepared query
MaxColumns == 2     \* columns of a row

SeqsUpTo(S, n) == UNION {[1..k -> S] : k \in 0..n}

\* Exponents an integer parameter is built from: 2^53 + 1 is the first
\* integer an f64 cannot hold, 2^63 the top bit of a u64.
IntBits == {0, 53, 63}

JsonNumbers ==
    {JNumber("PosInt", FALSE, S) : S \in SUBSET IntBits}
    \cup {JNumber("NegInt", TRUE, S) : S \in {{0}, {0, 53}}}
    \cup {JNumber("Float", FALSE, {-1}), JNumber("Float", TRUE, {-1, 1})}

\* "", "éA" (e acute), "€" (euro sign)
JsonStrings == {<<>>, <<233, 65>>, <<8364>>}

JsonValues ==
    {JNull, JBool(TRUE), JBool(FALSE), JArray, JObject}
    \cup {JString(s) : s \in JsonStrings} \cup JsonNumbers

\* Byte strings a column can hold: valid UTF-8 of one, two and three bytes,
\* a stray 0xFF, a lead byte without its continuation, a cut euro sign.
ColumnBytes ==
    {<<>>, <<65>>, <<195, 169>>, <<65, 255>>, <<195, 65>>,
     <<226, 130, 172>>, <<226, 130>>}

ColumnValues ==
    {VNULL}
    \cup {VBytes(b) : b \in ColumnBytes}
    \cup {VDate(2024, 3, 5, 9, 1, 2, 0),
          VDate(2024, 12, 25, 13, 45, 59, 123456)}
    \cup {VDouble(TRUE, {-1, 0})}
    \cup {VFloat(FALSE, {-2})}
    \cup {VInt(TRUE, {0}), VInt(FALSE, {0, 2})}
    \cup {VUInt({63})}
    \cup {VTime(FALSE, 0, 12, 30, 0, 0)}

ColumnNames == {"a", "b"}

RowInputs ==
    UNION {{Row(c, v) : c \in [1..k -> ColumnNames],
                        v \in [1..k -> ColumnValues]} : k \in 0..MaxColumns}

NoRow == Row(<<>>, <<>>)

CodecIdle ==
    /\ cphase = "idle"
    /\ cparams = <<>>
    /\ cbound = None
    /\ crow = NoRow
    /\ cmap = None

CodecInit ==
    \/ /\ cphase = "params"
       /\ cparams \in SeqsUpTo(JsonValues, MaxParams)
       /\ cbound = None
       /\ crow = NoRow
       /\ cmap = None
    \/ /\ cphase = "row"
       /\ cparams = <<>>
       /\ cbound = None
       /\ crow \in RowInputs
       /\ cmap = None

\* convert_params(p) on the parameters of a Prepared query
Encode ==
    /\ cphase = "params"
    /\ cbound' = Some(convert_params(cparams))
    /\ cphase' = "encoded"
    /\ UNCHANGED <<cparams, crow, cmap, reqVars>>

\* serde's call of QueryRow::serialize on one row of a result
Serialize ==
    /\ cphase = "row"
    /\ cmap' = Some(serialize(crow))
    /\ cphase' = "serialized"
    /\ UNCHANGED <<cparams, cbound, crow, reqVars>>

CodecNext == Encode \/ Serialize

-----------------------------------------------------------------------------
(* Request handling: Spec *)

MaxInFlight == 2    \* requests in flight at once
PoolSize == 1       \* connections the pool hands out at once

Requests == 1..MaxInFlight

Ok(v)  == [ok |-> TRUE, v |-> v]
Err(e) == [ok |-> FALSE, e |-> e]

(* enum Query *)
Simple(q)      == [form |-> "Simple", q |-> q]
Prepared(q, p) == [form |-> "Prepared", q |-> q, p |-> p]
\* a body that is neither a string nor a [string, array] pair
BadBody == [form |-> "Invalid"]
NoBody  == [form |-> "None"]

Bodies ==
    {Simple("SELECT x FROM t"),
     Prepared("INSERT INTO t(x, y) VALUES (?, ?)",
              <<JNumber("PosInt", FALSE, {0}), JString(<<65>>)>>),
     BadBody}

\* The raw value of `return` in the query string: absent, or its text.
ReturnParams == {None, Some("true"), Some("false"), Some("TRUE")}

\* CallParams as warp's query filter deserializes it (serde_urlencoded):
\* the field is an Option<bool>, a bool is parsed with str::parse, which
\* takes "true" and "false" and nothing else.
CallParams(raw) ==
    IF ~raw.some THEN Ok([_return |-> None])
    ELSE IF raw.val = "true" THEN Ok([_return |-> Some(TRUE)])
    ELSE IF raw.val = "false" THEN Ok([_return |-> Some(FALSE)])
    ELSE Err("Invalid query string")

\* Mutant of WantId: anything but an explicit false asks for the id.
WantId_NotFalse(params) == params._return # Some(FALSE)

\* params._return == Some(true)
WantId(params) == params._return = Some(TRUE)

\* What warp answers when a filter rejects the request.
Rejection(reason) ==
    [status |-> 400, ctype |-> "text/plain; charset=utf-8",
     body |-> <<reason>>]

(* enum QueryResult *)
QId(o)      == [variant |-> "Id", id |-> o]
QRows(rows) == [variant |-> "Rows", rows |-> rows]

\* Mutant of error: the caller gets the line as logged, prefix and all.
error_Prefixed(prefix, e) ==
    [line |-> <<prefix, ": ", e>>, text |-> <<prefix, ": ", e>>]

\* fn error: the line logged ("{}: {}", prefix, e) and the String returned
\* (e.to_string()).  A text is the sequence of its pieces.
error(prefix, e) == [line |-> <<prefix, ": ", e>>, text |-> <<e>>]

PoolErrors  == {"Connection refused (os error 111)"}
StoreErrors == {"Table 'db.nonexistent' doesn't exist"}

\* What the store answers to a statement: its rows and the connection's
\* last insert id (42 here).
StoreReplies ==
    {[rows |-> <<>>, last_insert_id |-> None],
     [rows |-> <<>>, last_insert_id |-> Some({1, 3, 5})],
     [rows |-> <<Row(<<"x">>, <<VInt(FALSE, {0})>>)>>,
      last_insert_id |-> None]}

\* The statement as _query hands it to the connection.
Issue(q) ==
    IF q.form = "Simple"
    THEN [protocol |-> "text", q |-> q.q, params |-> None]
    ELSE [protocol |-> "binary", q |-> q.q,
          params |-> Some(convert_params(q.p))]

\* Mutant of QueryOk: the Simple arm of the id mode collects rows.
QueryOk_SimpleRows(q, g, reply) ==
    IF g THEN
        CASE q.form = "Simple"   -> Ok(QRows(reply.rows))
          [] q.form = "Prepared" -> Ok(QId(reply.last_insert_id))
    ELSE
        CASE q.form = "Simple"   -> Ok(QRows(reply.rows))
          [] q.form = "Prepared" -> Ok(QRows(reply.rows))

\* The four arms of _query, on the store's reply.
QueryOk(q, g, reply) ==
    IF g THEN
        CASE q.form = "Simple"   -> Ok(QId(reply.last_insert_id))
          [] q.form = "Prepared" -> Ok(QId(reply.last_insert_id))
    ELSE
        CASE q.form = "Simple"   -> Ok(QRows(reply.rows))
          [] q.form = "Prepared" -> Ok(QRows(reply.rows))

\* Serialize for the untagged QueryResult: the variant's content alone.
ToJson(v) ==
    IF v.variant = "Id"
    THEN IF v.id.some THEN JNumber("u64", FALSE, v.id.val) ELSE JNull
    ELSE [t |-> "Array",
          items |-> [k \in 1..Len(v.rows) |->
                        [t |-> "Object", entries |-> serialize(v.rows[k])]]]

\* Mutant of Reply: the error's message sent without with_status.
Reply_Always200(res) ==
    IF res.ok
    THEN [status |-> 200, ctype |-> "application/json", body |-> ToJson(res.v)]
    ELSE [status |-> 200, ctype |-> "text/plain; charset=utf-8",
          body |-> res.e]

\* The match in query: warp::reply::json, or the message with status 500.
Reply(res) ==
    IF res.ok
    THEN [status |-> 200, ctype |-> "application/json", body |-> ToJson(res.v)]
    ELSE [status |-> 500, ctype |-> "text/plain; charset=utf-8",
          body |-> res.e]

Pending == [kind |-> "pending"]

ReqInit ==
    /\ pc = [r \in Requests |-> "idle"]
    /\ body = [r \in Requests |-> NoBody]
    /\ ret = [r \in Requests |-> None]
    /\ get_id = [r \in Requests |-> FALSE]
    /\ conn = [r \in Requests |-> FALSE]
    /\ free = PoolSize
    /\ acquires = [r \in Requests |-> 0]
    /\ execs = [r \in Requests |-> 0]
    /\ sent = [r \in Requests |-> None]
    /\ logged = [r \in Requests |-> <<>>]
    /\ result = [r \in Requests |-> None]
    /\ response = [r \in Requests |-> None]
    /\ outcome = [r \in Requests |-> Pending]
    /\ afterFail = [r \in Requests |-> FALSE]

\* A POST arrives: body::json, then query::query, then query(q, params)
\* up to _query's first await, POOL.get_conn().
Arrive(r, b, rv) ==
    /\ pc[r] = "idle"
    /\ body' = [body EXCEPT ![r] = b]
    /\ ret' = [ret EXCEPT ![r] = rv]
    /\ IF b = BadBody THEN
            /\ pc' = [pc EXCEPT ![r] = "rejected"]
            /\ response' = [response EXCEPT
                   ![r] = Some(Rejection("Request body deserialize error"))]
            /\ UNCHANGED <<get_id, acquires>>
       ELSE IF ~CallParams(rv).ok THEN
            /\ pc' = [pc EXCEPT ![r] = "rejected"]
            /\ response' = [response EXCEPT
                   ![r] = Some(Rejection(CallParams(rv).e))]
            /\ UNCHANGED <<get_id, acquires>>
       ELSE
            /\ pc' = [pc EXCEPT ![r] = "acquire"]
            /\ get_id' = [get_id EXCEPT ![r] = WantId(CallParams(rv).v)]
            /\ acquires' = [acquires EXCEPT ![r] = @ + 1]
            /\ UNCHANGED response
    /\ UNCHANGED <<conn, free, execs, sent, logged, result, outcome,
                   afterFail, codecVars>>

\* get_conn resolves with a connection; _query runs on to the statement's
\* await.
AcquireOk(r) ==
    /\ pc[r] = "acquire"
    /\ free > 0
    /\ free' = free - 1
    /\ conn' = [conn EXCEPT ![r] = TRUE]
    /\ sent' = [sent EXCEPT ![r] = Some(Issue(body[r]))]
    /\ execs' = [execs EXCEPT ![r] = @ + 1]
    /\ afterFail' = [afterFail EXCEPT
           ![r] = \E o \in Requests \ {r} :
                      pc[o] = "done" /\ ~result[o].ok]
    /\ pc' = [pc EXCEPT ![r] = "exec"]
    /\ UNCHANGED <<body, ret, get_id, acquires, logged, result, response,
                   outcome, codecVars>>

\* Mutant of AcquireErr: the error is logged and get_conn called again.
AcquireErr_Retry(r, e) ==
    /\ pc[r] = "acquire"
    /\ acquires[r] < 3
    /\ acquires' = [acquires EXCEPT ![r] = @ + 1]
    /\ logged' = [logged EXCEPT
           ![r] = Append(@, <<"MySQL connection error", ": ", e>>)]
    /\ UNCHANGED <<pc, body, ret, get_id, conn, free, execs, sent, result,
                   response, outcome, afterFail, codecVars>>

\* get_conn resolves with an error: map_err(error), `?`, and query's reply.
AcquireErr(r, e) ==
    /\ pc[r] = "acquire"
    /\ outcome' = [outcome EXCEPT ![r] = [kind |-> "conn_err", e |-> e]]
    /\ logged' = [logged EXCEPT
           ![r] = Append(@, error("MySQL connection error", e).line)]
    /\ result' = [result EXCEPT
           ![r] = Err(error("MySQL connection error", e).text)]
    /\ response' = [response EXCEPT ![r] = Some(Reply(result'[r]))]
    /\ pc' = [pc EXCEPT ![r] = "done"]
    /\ UNCHANGED <<body, ret, get_id, conn, free, acquires, execs, sent,
                   afterFail, codecVars>>

\* The statement's future resolves with the store's reply: the result is
\* built, conn is dropped (back to the pool), query replies.
ExecOk(r, reply) ==
    /\ pc[r] = "exec"
    /\ outcome' = [outcome EXCEPT ![r] = [kind |-> "ok", reply |-> reply]]
    /\ result' = [result EXCEPT ![r] = QueryOk(body[r], get_id[r], reply)]
    /\ conn' = [conn EXCEPT ![r] = FALSE]
    /\ free' = free + 1
    /\ response' = [response EXCEPT ![r] = Some(Reply(result'[r]))]
    /\ pc' = [pc EXCEPT ![r] = "done"]
    /\ UNCHANGED <<body, ret, get_id, acquires, execs, sent, logged,
                   afterFail, codecVars>>

\* Mutant of ExecErr: the connection is not given back on the error path.
ExecErr_Leak(r, e) ==
    /\ pc[r] = "exec"
    /\ outcome' = [outcome EXCEPT ![r] = [kind |-> "query_err", e |-> e]]
    /\ logged' = [logged EXCEPT
           ![r] = Append(@, <<"MySQL query error", ": ", e>>)]
    /\ result' = [result EXCEPT ![r] = Err(<<e>>)]
    /\ response' = [response EXCEPT
           ![r] = Some([status |-> 500, ctype |-> "text/plain; charset=utf-8",
                        body |-> <<e>>])]
    /\ pc' = [pc EXCEPT ![r] = "done"]
    /\ UNCHANGED <<body, ret, get_id, conn, free, acquires, execs, sent,
                   afterFail, codecVars>>

\* The statement's future resolves with an error: map_err(error), `?`
\* (conn is dropped on the way out), and query's reply.
ExecErr(r, e) ==
    /\ pc[r] = "exec"
    /\ outcome' = [outcome EXCEPT ![r] = [kind |-> "query_err", e |-> e]]
    /\ logged' = [logged EXCEPT
           ![r] = Append(@, error("MySQL query error", e).line)]
    /\ result' = [result EXCEPT
           ![r] = Err(error("MySQL query error", e).text)]
    /\ conn' = [conn EXCEPT ![r] = FALSE]
    /\ free' = free + 1
    /\ response' = [response EXCEPT ![r] = Some(Reply(result'[r]))]
    /\ pc' = [pc EXCEPT ![r] = "done"]
    /\ UNCHANGED <<body, ret, get_id, acquires, execs, sent, afterFail,
                   codecVars>>

\* The response is on the wire; the request's values are discarded.
Complete(r) ==
    /\ pc[r] \in {"done", "rejected"}
    /\ pc' = [pc EXCEPT ![r] = "idle"]
    /\ body' = [body EXCEPT ![r] = NoBody]
    /\ ret' = [ret EXCEPT ![r] = None]
    /\ get_id' = [get_id EXCEPT ![r] = FALSE]
    /\ acquires' = [acquires EXCEPT ![r] = 0]
    /\ execs' = [execs EXCEPT ![r] = 0]
    /\ sent' = [sent EXCEPT ![r] = None]
    /\ logged' = [logged EXCEPT ![r] = <<>>]
    /\ result' = [result EXCEPT ![r] = None]
    /\ response' = [response EXCEPT ![r] = None]
    /\ outcome' = [outcome EXCEPT ![r] = Pending]
    /\ afterFail' = [afterFail EXCEPT ![r] = FALSE]
    /\ UNCHANGED <<conn, free, codecVars>>

Next ==
    \E r \in Requests :
        \/ \E b \in Bodies, rv \in ReturnParams : Arrive(r, b, rv)
        \/ AcquireOk(r)
        \/ \E e \in PoolErrors : AcquireErr(r, e)
        \/ \E reply \in StoreReplies : ExecOk(r, reply)
        \/ \E e \in StoreErrors : ExecErr(r, e)
        \/ Complete(r)

Init == ReqInit /\ CodecIdle

Spec == Init /\ [][Next]_vars

CodecStart == CodecInit /\ ReqInit

CodecSpec == CodecStart /\ [][CodecNext]_vars

-----------------------------------------------------------------------------
(* Claims about request handling, checked under Spec *)

Failed(r) == outcome[r].kind \in {"conn_err", "query_err"}

\* C1: a successful _query returns the variant the mode flag selects,
\* whatever the statement's form: without get_id the row set, the store's
\* rows as they came (empty when there are none); with get_id the generated
\* id, the store's last insert id (None when it generated none).
C1_VariantByModeAlone ==
    \A r \in Requests :
        pc[r] = "done" /\ result[r].ok =>
            LET v == result[r].v
                reply == outcome[r].reply
            IN  /\ get_id[r] => v = [variant |-> "Id", id |-> reply.last_insert_id]
                /\ ~get_id[r] => v = [variant |-> "Rows", rows |-> reply.rows]

\* A Simple statement in id mode that generated no id, beside a Prepared
\* one in row mode that returned no rows.
C1_Witness ==
    \E r, o \in Requests :
        /\ pc[r] = "done" /\ body[r].form = "Simple" /\ get_id[r]
        /\ result[r] = Ok([variant |-> "Id", id |-> None])
        /\ pc[o] = "done" /\ body[o].form = "Prepared" /\ ~get_id[o]
        /\ result[o] = Ok([variant |-> "Rows", rows |-> <<>>])

\* C2, as amended: for a request whose body parsed, `return=true` selects
\* the id mode, no `return` or `return=false` the row mode, and any other
\* value has the request rejected with status 400 before a connection is
\* asked for or a statement sent.
C2_ReturnSelectsModeOrRejects ==
    \A r \in Requests :
        pc[r] # "idle" /\ body[r] # BadBody =>
            /\ ret[r] = Some("true") => pc[r] # "rejected" /\ get_id[r]
            /\ ret[r] \in {None, Some("false")} =>
                    pc[r] # "rejected" /\ ~get_id[r]
            /\ ret[r] \notin {None, Some("true"), Some("false")} =>
                    /\ pc[r] = "rejected"
                    /\ response[r] = Some(Rejection("Invalid query string"))
                    /\ acquires[r] = 0 /\ execs[r] = 0

\* `return=TRUE` rejected beside `return=false` answered with rows.
C2_Witness ==
    \E r, o \in Requests :
        /\ pc[r] = "rejected" /\ body[r] # BadBody /\ ret[r] = Some("TRUE")
        /\ pc[o] = "done" /\ ret[o] = Some("false")
        /\ result[o].ok /\ result[o].v.variant = "Rows"

\* C2 as stated: `return=true` selects the id mode, and without the
\* parameter or with any other value the request is still executed, in
\* row mode.
C2_AnyOtherValueRowMode ==
    \A r \in Requests :
        pc[r] # "idle" /\ body[r] # BadBody =>
            /\ ret[r] = Some("true") => pc[r] # "rejected" /\ get_id[r]
            /\ ret[r] # Some("true") => pc[r] # "rejected" /\ ~get_id[r]

\* C3: for a failed request, connection error or query error, the text
\* returned to the caller is the error's message, and the one line logged
\* for it is the class's prefix, ": ", and that same text.
C3_CallerGetsLoggedMessage ==
    \A r \in Requests :
        pc[r] = "done" /\ Failed(r) =>
            LET prefix == IF outcome[r].kind = "conn_err"
                          THEN "MySQL connection error"
                          ELSE "MySQL query error"
            IN  /\ response[r].val.body = <<outcome[r].e>>
                /\ logged[r] = << <<prefix, ": ">> \o response[r].val.body >>

\* One request failed at the pool, another at the store.
C3_Witness ==
    \E r, o \in Requests :
        /\ pc[r] = "done" /\ outcome[r].kind = "conn_err"
        /\ pc[o] = "done" /\ outcome[o].kind = "query_err"
        /\ Len(logged[r]) = 1 /\ Len(logged[o]) = 1

\* C4: a handled request is answered with status 200 and the JSON of the
\* QueryResult iff the pool gave a connection and the store answered the
\* statement; otherwise with status 500 and the error's message as plain
\* text, whichever of the two failed.
C4_StatusByOutcome ==
    \A r \in Requests :
        pc[r] = "done" =>
            LET resp == response[r].val IN
            /\ outcome[r].kind \in {"ok", "conn_err", "query_err"}
            /\ resp.status = 200 <=> outcome[r].kind = "ok"
            /\ outcome[r].kind = "ok" =>
                    /\ resp.ctype = "application/json"
                    /\ result[r].ok
                    /\ resp.body = ToJson(result[r].v)
                    /\ resp.body.t \in {"Null", "Number", "Array"}
            /\ Failed(r) =>
                    /\ resp.status = 500
                    /\ resp.ctype = "text/plain; charset=utf-8"
                    /\ resp.body = <<outcome[r].e>>

\* A 500 for a connection error beside a 200 with one row.
C4_Witness ==
    \E r, o \in Requests :
        /\ pc[r] = "done" /\ outcome[r].kind = "conn_err"
        /\ response[r].val.status = 500
        /\ pc[o] = "done" /\ outcome[o].kind = "ok"
        /\ response[o].val.status = 200
        /\ response[o].val.body.t = "Array"
        /\ Len(response[o].val.body.items) = 1

\* C5: handling a request asks the pool for a connection exactly once and
\* sends at most one statement, and only on a connection it got: nothing
\* is sent when the pool failed, and nothing is asked or sent again after
\* a failure.
C5_OneAcquireOneStatement ==
    \A r \in Requests :
        /\ acquires[r] <= 1 /\ execs[r] <= 1
        /\ pc[r] \in {"acquire", "exec", "done"} => acquires[r] = 1
        /\ execs[r] = 1 =>
                /\ acquires[r] = 1
                /\ pc[r] \in {"exec", "done"}
                /\ outcome[r].kind # "conn_err"
        /\ outcome[r].kind = "conn_err" => execs[r] = 0 /\ sent[r] = None
        /\ pc[r] = "done" /\ outcome[r].kind \in {"ok", "query_err"} =>
                execs[r] = 1

\* One request ended by a connection error, another by a query error.
C5_Witness ==
    \E r, o \in Requests :
        /\ pc[r] = "done" /\ outcome[r].kind = "conn_err"
        /\ acquires[r] = 1 /\ execs[r] = 0
        /\ pc[o] = "done" /\ outcome[o].kind = "query_err"
        /\ acquires[o] = 1 /\ execs[o] = 1

\* C6: whatever failed and however the requests interleave, no connection
\* is lost: a request holds one only while its statement is awaited, every
\* other connection is in the pool, and a request waiting for a connection
\* that nobody holds can take one.
C6_PoolSurvivesFailures ==
    /\ free >= 0
    /\ free + Cardinality({r \in Requests : conn[r]}) = PoolSize
    /\ \A r \in Requests :
        /\ conn[r] <=> pc[r] = "exec"
        /\ pc[r] = "acquire" /\ (\A o \in Requests : pc[o] # "exec") =>
                ENABLED AcquireOk(r)

\* A request that took its connection after a query error had ended another
\* request, and was answered with status 200; the pool is whole again.
C6_Witness ==
    \E r, o \in Requests :
        /\ pc[o] = "done" /\ outcome[o].kind = "query_err"
        /\ pc[r] = "done" /\ afterFail[r]
        /\ response[r].val.status = 200
        /\ free = PoolSize

-----------------------------------------------------------------------------
(* Claims about the value codec, checked under CodecSpec *)

Encoded(i) == cbound.val.values[i]

\* C7 as stated: a JSON number bound as a parameter and read back from a
\* column holding the bound value is a JSON number equal in value, exactly
\* so for every integer of the unsigned 64-bit range.
C7_NumberRoundTripExact ==
    cphase = "encoded" =>
        \A i \in 1..Len(cparams) :
            cparams[i].t = "Number" =>
                LET back == DecodeValue(Some(Encoded(i))) IN
                /\ back.t = "Number"
                /\ cparams[i].n \in {"PosInt", "Float"} =>
                        back.neg = cparams[i].neg /\ back.bits = cparams[i].bits

\* C8: serializing a row emits one entry per column, keyed by the column's
\* name, in the column order, each with a JSON scalar for its value: no
\* column is left out, and no kind of value makes it fail.
C8_OneEntryPerColumnInOrder ==
    cphase = "serialized" =>
        /\ cmap.some
        /\ Len(cmap.val) = Len(crow.columns)
        /\ \A i \in 1..Len(crow.columns) :
            /\ cmap.val[i].key = crow.columns[i]
            /\ cmap.val[i].value.t \in {"String", "Number", "Null"}

\* Two columns of one name, a NULL and a time of day: two entries.
C8_Witness ==
    /\ cphase = "serialized"
    /\ crow.columns = <<"a", "a">>
    /\ crow.values[1] = VNULL
    /\ crow.values[2].kind = "Time"
    /\ Len(cmap.val) = 2

\* The text a temporal value must decode to, field by field, unpadded.
ExpectedDateText(v) ==
    CASE v = VDate(2024, 3, 5, 9, 1, 2, 0) ->
            \* "2024-3-5 9:1:2.0"
            <<50, 48, 50, 52, 45, 51, 45, 53, 32, 57, 58, 49, 58, 50, 46, 48>>
      [] v = VDate(2024, 12, 25, 13, 45, 59, 123456) ->
            \* "2024-12-25 13:45:59.123456"
            <<50, 48, 50, 52, 45, 49, 50, 45, 50, 53, 32, 49, 51, 58, 52, 53,
              58, 53, 57, 46, 49, 50, 51, 52, 53, 54>>
      [] OTHER -> <<>>

\* The string a byte string must decode to: the text it encodes, a
\* U+FFFD for each maximal run of bytes that encodes nothing.
ExpectedLossyText(bs) ==
    CASE bs = <<>>              -> <<>>
      [] bs = <<65>>            -> <<65>>
      [] bs = <<195, 169>>      -> <<233>>
      [] bs = <<65, 255>>       -> <<65, 65533>>
      [] bs = <<195, 65>>       -> <<65533, 65>>
      [] bs = <<226, 130, 172>> -> <<8364>>
      [] bs = <<226, 130>>      -> <<65533>>
      [] OTHER                  -> <<-1>>

\* C9: a column's value decodes by its kind: a byte string to the string
\* it holds, invalid bytes replaced; a temporal value to
\* "y-m-d h:i:s.u" without padding; a double, float, signed or unsigned
\* integer to a JSON number of that kind and value; anything else, SQL
\* NULL and a time of day included, to JSON null.
C9_DecodeByKind ==
    cphase = "serialized" =>
        \A i \in 1..Len(crow.values) :
            LET v == crow.values[i]
                j == cmap.val[i].value
            IN  /\ v.kind = "Bytes" =>
                    j = [t |-> "String", s |-> ExpectedLossyText(v.bytes)]
                /\ v.kind = "Date" =>
                    j = [t |-> "String", s |-> ExpectedDateText(v)]
                /\ v.kind = "Double" =>
                    j = [t |-> "Number", n |-> "f64", neg |-> v.neg,
                         bits |-> v.bits]
                /\ v.kind = "Float" =>
                    j = [t |-> "Number", n |-> "f32", neg |-> v.neg,
                         bits |-> v.bits]
                /\ v.kind = "Int" =>
                    j = [t |-> "Number", n |-> "i64", neg |-> v.neg,
                         bits |-> v.bits]
                /\ v.kind = "UInt" =>
                    j = [t |-> "Number", n |-> "u64", neg |-> v.neg,
                         bits |-> v.bits]
                /\ v.kind \notin {"Bytes", "Date", "Double", "Float", "Int",
                                  "UInt"} =>
                    j = [t |-> "Null"]

\* A date with one-digit fields beside a time of day.
C9_Witness ==
    /\ cphase = "serialized"
    /\ Len(crow.values) = 2
    /\ crow.values[1] = VDate(2024, 3, 5, 9, 1, 2, 0)
    /\ crow.values[2].kind = "Time"
    /\ cmap.val[2].value = JNull

\* C10: convert_params returns positional parameters, one per JSON value
\* and in their order: a boolean as the integer 1 or 0, a string as its
\* bytes, a number as a double whenever as_f64 gives one (a negative
\* integer too, never a signed integer) and else as an unsigned integer,
\* null, an array and an object as NULL.
C10_ConvertParamsTotalPositional ==
    cphase = "encoded" =>
        /\ cbound.some
        /\ cbound.val.form = "Positional"
        /\ Len(cbound.val.values) = Len(cparams)
        /\ \A i \in 1..Len(cparams) :
            LET p == cparams[i]
                v == Encoded(i)
            IN  /\ p.t = "Bool" =>
                    v = [kind |-> "Int", neg |-> FALSE,
                         bits |-> IF p.b THEN {0} ELSE {}]
                /\ p.t = "String" =>
                    v.kind = "Bytes" /\ from_utf8_lossy(v.bytes) = p.s
                /\ p.t = "Number" =>
                    /\ as_f64(p).some => v.kind = "Double" /\ v.neg = p.neg
                    /\ ~as_f64(p).some => v.kind = "UInt"
                    /\ v.kind # "Int"
                /\ p.t \in {"Null", "Array", "Object"} => v = [kind |-> "NULL"]

\* A negative integer bound as a double, then an array bound as NULL.
C10_Witness ==
    /\ cphase = "encoded"
    /\ Len(cparams) = 2
    /\ cparams[1] = JNumber("NegInt", TRUE, {0})
    /\ Encoded(1) = VDouble(TRUE, {0})
    /\ cparams[2] = JArray
    /\ Encoded(2) = VNULL

=============================================================================
